---------------------------- MODULE Spec2Model ----------------------------
(***************************************************************************)
(* Model of the natural-language-to-SQL pipeline of app/query_engine.py.   *)
(*                                                                         *)
(* Text is modelled character by character: a Python str is a sequence of  *)
(* one-character strings, so that the sanitizer, the safety gate and the   *)
(* limit enforcer are computed the way the regular expressions compute     *)
(* them.  An Optional value is None (the empty tuple) or Some(v).          *)
(***************************************************************************)
EXTENDS Integers, Sequences, FiniteSets, TLC

None == <<>>
Some(v) == <<v>>

(***************************************************************************)
(* Character classes of Python's re module and str methods.  Letters and   *)
(* digits are those of ASCII.                                              *)
(***************************************************************************)
LowerCase == <<"a","b","c","d","e","f","g","h","i","j","k","l","m","n","o","p","q","r","s","t","u","v","w","x","y","z">>
UpperCase == <<"A","B","C","D","E","F","G","H","I","J","K","L","M","N","O","P","Q","R","S","T","U","V","W","X","Y","Z">>
DigitChars == <<"0","1","2","3","4","5","6","7","8","9">>

Range(f) == {f[i] : i \in DOMAIN f}

\* the whitespace characters that have no escape in a string of this
\* language, each named by its Python escape: the vertical tab and the four
\* separators of ASCII, and the whitespace of Unicode beyond ASCII
VT == "\\x0b"
AsciiSeparators == {"\\x1c", "\\x1d", "\\x1e", "\\x1f"}
UnicodeSpaces ==
  {"\\x85", "\\xa0", "\\u1680", "\\u2000", "\\u2001", "\\u2002", "\\u2003",
   "\\u2004", "\\u2005", "\\u2006", "\\u2007", "\\u2008", "\\u2009", "\\u200a",
   "\\u2028", "\\u2029", "\\u202f", "\\u205f", "\\u3000"}
\* \s and str.strip(): whitespace, the characters of str.isspace()
Space ==
  {" ", "\t", "\n", "\r", "\f", VT} \cup AsciiSeparators \cup UnicodeSpaces
\* \d
Digit == Range(DigitChars)
\* [a-zA-Z0-9]
Alnum == Range(LowerCase) \cup Range(UpperCase) \cup Digit
\* \w, the class \b is defined by
Word == Alnum \cup {"_"}

\* str.upper() on one character
UpperChar(c) ==
  IF c \in Range(LowerCase)
    THEN UpperCase[CHOOSE i \in 1..26 : LowerCase[i] = c]
    ELSE c

\* str.lower() on one character: what re.IGNORECASE compares
LowerChar(c) ==
  IF c \in Range(UpperCase)
    THEN LowerCase[CHOOSE i \in 1..26 : UpperCase[i] = c]
    ELSE c

\* str.upper()
Upper(s) == [i \in 1..Len(s) |-> UpperChar(s[i])]

\* the slice s[i-1:] of Python, i counted from 1
From(s, i) == SubSeq(s, i, Len(s))

\* the position after the longest run of characters of class C that starts
\* at position i: what a greedy C* consumes
SpanEnd(s, i, C) ==
  IF i > Len(s) THEN i
  ELSE CHOOSE j \in i..(Len(s) + 1) :
         /\ \A k \in i..(j - 1) : s[k] \in C
         /\ j = Len(s) + 1 \/ s[j] \notin C

\* the position before the longest run of characters of class C that ends
\* at position i
SpanStart(s, i, C) ==
  IF i < 1 THEN 0
  ELSE CHOOSE j \in 0..i :
         /\ \A k \in (j + 1)..i : s[k] \in C
         /\ j = 0 \/ s[j] \notin C

\* the literal p occurs in s at position i
LitAt(s, i, p) ==
  /\ i >= 1
  /\ i + Len(p) - 1 <= Len(s)
  /\ \A k \in 1..Len(p) : s[i + k - 1] = p[k]

\* the lower-case literal p occurs in s at position i under re.IGNORECASE
LitAtI(s, i, p) ==
  /\ i >= 1
  /\ i + Len(p) - 1 <= Len(s)
  /\ \A k \in 1..Len(p) : LowerChar(s[i + k - 1]) = p[k]

\* the operator (in) of str: p is a substring of s
Contains(s, p) == \E i \in 1..(Len(s) + 1) : LitAt(s, i, p)

\* str.lstrip(), str.rstrip(), str.strip()
LStrip(s) == From(s, SpanEnd(s, 1, Space))
RStrip(s) == SubSeq(s, 1, SpanStart(s, Len(s), Space))
Strip(s) == RStrip(LStrip(s))

\* str.rstrip(";")
RStripSemi(s) == SubSeq(s, 1, SpanStart(s, Len(s), {";"}))

\* str.split(";")
RECURSIVE SplitSemi(_)
SplitSemi(s) ==
  IF \A i \in 1..Len(s) : s[i] # ";"
    THEN <<s>>
    ELSE LET i == CHOOSE j \in 1..Len(s) :
                    s[j] = ";" /\ \A k \in 1..(j - 1) : s[k] # ";"
         IN  <<SubSeq(s, 1, i - 1)>> \o SplitSemi(From(s, i + 1))

\* str(n) of an int
RECURSIVE NatStr(_)
NatStr(n) ==
  IF n < 10 THEN <<DigitChars[n + 1]>>
            ELSE NatStr(n \div 10) \o <<DigitChars[(n % 10) + 1]>>
IntStr(n) == IF n < 0 THEN <<"-">> \o NatStr(0 - n) ELSE NatStr(n)

(***************************************************************************)
(* Fixed texts of query_engine.py.                                         *)
(***************************************************************************)
SENTINEL == <<"U","N","S","U","P","P","O","R","T","E","D">>
\* the backquote character U+0060, which a TLA+ string cannot hold: the one
\* element of a text that is not written as the character itself
Backquote == "BACKQUOTE"
\* the three backquotes of a fenced code block
FENCE == <<Backquote, Backquote, Backquote>>
\* "Sorry, I cannot answer that question based on the available data."
REFUSAL_ANSWER == <<"S","o","r","r","y",","," ","I"," ","c","a","n","n","o","t"," ","a","n","s","w","e","r"," ","t","h","a","t"," ","q","u","e","s","t","i","o","n"," ","b","a","s","e","d"," ","o","n"," ","t","h","e"," ","a","v","a","i","l","a","b","l","e"," ","d","a","t","a",".">>
\* "An error occurred while processing your question."
FAILURE_ANSWER == <<"A","n"," ","e","r","r","o","r"," ","o","c","c","u","r","r","e","d"," ","w","h","i","l","e"," ","p","r","o","c","e","s","s","i","n","g"," ","y","o","u","r"," ","q","u","e","s","t","i","o","n",".">>
\* "No rows matched your query."
NO_ROWS_ANSWER == <<"N","o"," ","r","o","w","s"," ","m","a","t","c","h","e","d"," ","y","o","u","r"," ","q","u","e","r","y",".">>
\* "There was no data to summarize."
NO_DATA_ANSWER == <<"T","h","e","r","e"," ","w","a","s"," ","n","o"," ","d","a","t","a"," ","t","o"," ","s","u","m","m","a","r","i","z","e",".">>
\* "Here is the data as requested."
FALLBACK_ANSWER == <<"H","e","r","e"," ","i","s"," ","t","h","e"," ","d","a","t","a"," ","a","s"," ","r","e","q","u","e","s","t","e","d",".">>
\* the messages of the two ValueErrors
SELECT_ONLY_ERROR == "Only SELECT statements are allowed."
EMPTY_SQL_ERROR == "Generated SQL was empty after sanitization."

\* the outcome of a call: a returned value or a raised exception
Return(v) == [raised |-> FALSE, value |-> v]
Raise(msg) == [raised |-> TRUE, msg |-> msg]

(***************************************************************************)
(* _clean_sql: the sanitizer.                                              *)
(***************************************************************************)
\* re.sub(r"^FENCE[a-zA-Z0-9]*\s*", "", s)
StripFenceOpen(s) ==
  IF LitAt(s, 1, FENCE)
    THEN From(s, SpanEnd(s, SpanEnd(s, 4, Alnum), Space))
    ELSE s

\* the sanitizer without line 47: the closer of the fence is left in place
StripFenceClose_left_in(s) == s

\* re.sub(r"\s*FENCE$", "", s); $ is the end of s or the place before a
\* newline that ends s
StripFenceClose(s) ==
  LET n == Len(s) IN
  IF LitAt(s, n - 2, FENCE)
    THEN SubSeq(s, 1, SpanStart(s, n - 3, Space))
    ELSE IF n >= 1 /\ s[n] = "\n" /\ LitAt(s, n - 3, FENCE)
           THEN SubSeq(s, 1, SpanStart(s, n - 4, Space)) \o <<"\n">>
           ELSE s

\* re.sub(r"^\s*sql\s*\n", "", s, flags=re.IGNORECASE): the greedy \s* gives
\* back down to the last newline of the whitespace run after "sql"
StripSqlLine(s) ==
  LET a == SpanEnd(s, 1, Space)
      b == SpanEnd(s, a + 3, Space)
      nl == {k \in (a + 3)..(b - 1) : s[k] = "\n"}
  IN  IF LitAtI(s, a, <<"s","q","l">>) /\ nl # {}
        THEN From(s, (CHOOSE k \in nl : \A m \in nl : m <= k) + 1)
        ELSE s

\* re.sub(r"^\s*SQL\s*:\s*", "", s, flags=re.IGNORECASE)
StripSqlLabel(s) ==
  LET a == SpanEnd(s, 1, Space)
      b == SpanEnd(s, a + 3, Space)
  IN  IF LitAtI(s, a, <<"s","q","l">>) /\ LitAt(s, b, <<":">>)
        THEN From(s, SpanEnd(s, b + 1, Space))
        ELSE s

\* line 52 taking the last segment that is not empty instead of the first
FirstNonEmpty_last(parts) ==
  LET full == {i \in DOMAIN parts : parts[i] # <<>>}
  IN  IF full = {} THEN <<>>
      ELSE parts[CHOOSE i \in full : \A j \in full : j <= i]

\* next((p for p in parts if p), "")
FirstNonEmpty(parts) ==
  LET full == {i \in DOMAIN parts : parts[i] # <<>>}
  IN  IF full = {} THEN <<>>
      ELSE parts[CHOOSE i \in full : \A j \in full : i <= j]

\* the text the segments are cut from: lines 41 and 46-49
Unwrapped(text) ==
  StripSqlLabel(StripSqlLine(StripFenceClose(StripFenceOpen(Strip(text)))))

\* parts = [p.strip() for p in s.split(";")]
Segments(s) == LET raw == SplitSemi(s) IN [i \in DOMAIN raw |-> Strip(raw[i])]

_clean_sql(text) ==
  IF Contains(Upper(Strip(text)), SENTINEL)
    THEN SENTINEL
    ELSE LET first == FirstNonEmpty(Segments(Unwrapped(text)))
         IN  IF first # <<>> THEN first \o <<";">> ELSE <<>>

(***************************************************************************)
(* _enforce_select_only: the safety gate.                                  *)
(***************************************************************************)
\* re.match(r"^\s*select\b", sql, flags=re.IGNORECASE)
SelectMatch(sql) ==
  LET a == SpanEnd(sql, 1, Space)
  IN  /\ LitAtI(sql, a, <<"s","e","l","e","c","t">>)
      /\ a + 6 > Len(sql) \/ sql[a + 6] \notin Word

\* the gate anchored nowhere: re.search in place of re.match
_enforce_select_only_search(sql) ==
  IF \E i \in 1..Len(sql) : LitAtI(sql, i, <<"s","e","l","e","c","t">>)
    THEN Return(sql) ELSE Raise(SELECT_ONLY_ERROR)

_enforce_select_only(sql) ==
  IF ~SelectMatch(sql) THEN Raise(SELECT_ONLY_ERROR) ELSE Return(sql)

(***************************************************************************)
(* _apply_limit: the limit enforcer.                                       *)
(***************************************************************************)
\* re.search(r"\blimit\s+\d+\b", sql, flags=re.IGNORECASE)
LimitMatch(sql) ==
  \E i \in 1..Len(sql) :
    /\ LitAtI(sql, i, <<"l","i","m","i","t">>)
    /\ i = 1 \/ sql[i - 1] \notin Word
    /\ LET d == SpanEnd(sql, i + 5, Space)
           e == SpanEnd(sql, d, Digit)
       IN  /\ d > i + 5
           /\ e > d
           /\ e = Len(sql) + 1 \/ sql[e] \notin Word

\* (not limit) of an Optional[int]
Falsy(limit) == limit = None \/ limit = Some(0)

\* line 78 taking off one ";" only
_apply_limit_one_semicolon(sql, limit) ==
  IF Falsy(limit) THEN sql
  ELSE IF LimitMatch(sql) THEN sql
  ELSE LET t == RStrip(sql)
       IN  (IF t # <<>> /\ t[Len(t)] = ";" THEN SubSeq(t, 1, Len(t) - 1) ELSE t)
             \o <<" ","L","I","M","I","T"," ">> \o IntStr(limit[1]) \o <<";">>

_apply_limit(sql, limit) ==
  IF Falsy(limit) THEN sql
  ELSE IF LimitMatch(sql) THEN sql
  ELSE RStripSemi(RStrip(sql)) \o <<" ","L","I","M","I","T"," ">>
         \o IntStr(limit[1]) \o <<";">>

(***************************************************************************)
(* _format_rows_for_answer: terse mode.                                    *)
(***************************************************************************)
\* the number of rows the terse answer says it shows
PreviewRows == 5

Min(a, b) == IF a < b THEN a ELSE b

\* line 93 without the cap of the preview
_format_rows_for_answer_uncapped(rs) ==
  IF rs = <<>> THEN NO_ROWS_ANSWER
  ELSE IF Len(rs) = 1 /\ Len(rs[1]) = 1
    THEN <<"T","h","e"," ","r","e","s","u","l","t"," ","i","s"," ">>
           \o IntStr(rs[1][1]) \o <<".">>
  ELSE <<"F","o","u","n","d"," ">> \o IntStr(Len(rs))
         \o <<" ","r","o","w","(","s",")","."," ","S","h","o","w","i","n","g"," ","t","o","p"," ">>
         \o IntStr(Len(rs)) \o <<".">>

_format_rows_for_answer(rs) ==
  IF rs = <<>> THEN NO_ROWS_ANSWER
  ELSE IF Len(rs) = 1 /\ Len(rs[1]) = 1
    THEN <<"T","h","e"," ","r","e","s","u","l","t"," ","i","s"," ">>
           \o IntStr(rs[1][1]) \o <<".">>
  ELSE <<"F","o","u","n","d"," ">> \o IntStr(Len(rs))
         \o <<" ","r","o","w","(","s",")","."," ","S","h","o","w","i","n","g"," ","t","o","p"," ">>
         \o IntStr(Min(Len(rs), PreviewRows)) \o <<".">>

(***************************************************************************)
(* _summarize_table: narrative mode.  llm is the outcome the model client  *)
(* gives the summarization prompt; it is read only when the table is not   *)
(* empty.                                                                  *)
(***************************************************************************)
\* the guard of line 149 asking for one of columns and rows only
NeedsModel_either(cols, rs) == cols # <<>> \/ rs # <<>>

\* the guard of line 149 fails: the model is called
NeedsModel(cols, rs) == cols # <<>> /\ rs # <<>>

\* the except clause of lines 167-169 giving the generic failure answer
_summarize_table_generic(cols, rs, llm) ==
  IF ~NeedsModel(cols, rs) THEN NO_DATA_ANSWER
  ELSE IF llm.raised THEN FAILURE_ANSWER
  ELSE Strip(llm.value)

_summarize_table(cols, rs, llm) ==
  IF ~NeedsModel(cols, rs) THEN NO_DATA_ANSWER
  ELSE IF llm.raised THEN FALLBACK_ANSWER
  ELSE Strip(llm.value)

(***************************************************************************)
(* _generate_sql, given the outcome llm of the model call of line 124.     *)
(***************************************************************************)
_generate_sql(llm) ==
  IF llm.raised THEN llm
  ELSE _enforce_select_only(_clean_sql(llm.value))

(***************************************************************************)
(* QueryResponse and the three responses process_question builds.          *)
(***************************************************************************)
QueryResponse(sql_, answer_, error_, columns_, rows_) ==
  [sql |-> sql_, answer |-> answer_, error |-> error_,
   columns |-> columns_, rows |-> rows_]

\* lines 177-183
RefusalResponse ==
  QueryResponse(None, REFUSAL_ANSWER, None, Some(<<>>), Some(<<>>))

\* lines 193-194 returning the table whatever return_table is
SuccessResponse_always_table(sql_, answer_, cols, rs, with_table) ==
  QueryResponse(Some(sql_), answer_, None, Some(cols), Some(rs))

\* lines 190-195
SuccessResponse(sql_, answer_, cols, rs, with_table) ==
  QueryResponse(Some(sql_), answer_, None,
                IF with_table THEN Some(cols) ELSE None,
                IF with_table THEN Some(rs) ELSE None)

\* the handler keeping the exception's string to itself
ErrorResponse_no_detail(msg) ==
  QueryResponse(None, FAILURE_ANSWER, None, None, None)

\* lines 197-203: the handler of every Exception
ErrorResponse(msg) ==
  QueryResponse(None, FAILURE_ANSWER, Some(msg), None, None)

\* line 176: sql.strip().upper() == "UNSUPPORTED"
IsSentinel(s) == Upper(Strip(s)) = SENTINEL

(***************************************************************************)
(* The inputs: what the model client, the data store and the caller can    *)
(* hand the pipeline.                                                      *)
(***************************************************************************)
\* a completion is a concatenation of at most this many pieces
MaxPieces == 3
\* a completion of the pipeline is a concatenation of at most this many
MaxRawPieces == 2
\* the limit enforcer is applied at most this many times in a row
MaxApply == 2
\* the tables of the data store have at most this many rows and columns
MaxRows == 6
MaxCols == 2

\* the pieces completions are made of: "SELECT 1", "select", ";", " ",
\* "\n", "sql", "SQL:", "; DROP t", "unSupported", " Limit 5"
Pieces ==
  {<<"S","E","L","E","C","T"," ","1">>,
   <<"s","e","l","e","c","t">>,
   <<";">>,
   <<" ">>,
   <<"\n">>,
   <<VT>>,
   <<"s","q","l">>,
   <<"S","Q","L",":">>,
   <<";"," ","D","R","O","P"," ","t">>,
   <<"u","n","S","u","p","p","o","r","t","e","d">>,
   <<" ","L","i","m","i","t"," ","5">>}

RECURSIVE Texts(_)
Texts(n) ==
  IF n = 0 THEN {<<>>}
  ELSE LET shorter == Texts(n - 1)
       IN  shorter \cup {t \o p : t \in shorter, p \in Pieces}

\* the language tags of a fenced code block: none, sql, SQLite3
Tags == {<<>>, <<"s","q","l">>, <<"S","Q","L","i","t","e","3">>}

\* a fenced code block: the opener with its tag, the content on its own
\* lines, the closer
Fenced(tag_, inner_) == FENCE \o tag_ \o <<"\n">> \o inner_ \o <<"\n">> \o FENCE

\* a completion: a text, bare (None) or in a fenced code block with a tag
Wrapped(wrap_, inner_) ==
  IF wrap_ = None THEN inner_ ELSE Fenced(wrap_[1], inner_)
Wraps == {None} \cup {Some(t) : t \in Tags}

\* what LLM.predict does: returns a text or raises
ModelErrors == {"Request timed out.", ""}
RawCompletions == {Wrapped(w, t) : w \in Wraps, t \in Texts(MaxRawPieces)}
GenerationOutcomes ==
  {Raise(m) : m \in ModelErrors} \cup {Return(r) : r \in RawCompletions}
SummaryOutcomes ==
  {Raise(m) : m \in ModelErrors}
    \cup {Return(<<" ","U","p"," ","4","%",".","\n">>), Return(<<"F","l","a","t">>)}

\* what the data store does with a statement: raises, runs a statement
\* that returns no rows, or returns a table
StoreErrors == {"no such table: t"}
ColumnNames == <<"period", "value", "item", "unit">>
Table(nc, nr) ==
  [returns_rows |-> TRUE,
   keys |-> SubSeq(ColumnNames, 1, nc),
   fetchall |-> [i \in 1..nr |-> [j \in 1..nc |-> 10 * i + j - 15]]]
NoRows == [returns_rows |-> FALSE, keys |-> <<>>, fetchall |-> <<>>]
StoreOutcomes ==
  {Raise(m) : m \in StoreErrors} \cup {Return(NoRows)}
    \cup {Return(Table(nc, nr)) : nc \in 1..MaxCols, nr \in 0..MaxRows}

\* what DB._engine.connect() does at line 137: a connection, or an exception
ConnectErrors == {"unable to open database file"}
ConnectOutcomes == {Raise(m) : m \in ConnectErrors} \cup {Return("connection")}

\* what result.keys() and result.fetchall() do at lines 141-142: the rows of
\* the result, or an exception of the data store
FetchErrors == {"database disk image is malformed"}
FetchOutcomes(result) ==
  {Raise(m) : m \in FetchErrors} \cup {Return(result.fetchall)}

\* what DB.get_table_info() does at line 115: the description of the schema,
\* or an exception of the data store
SchemaErrors == {"unable to open database file"}
SchemaTexts == {"CREATE TABLE t (period TEXT, value REAL)"}
SchemaOutcomes ==
  {Raise(m) : m \in SchemaErrors} \cup {Return(s) : s \in SchemaTexts}

\* the limit argument of process_question and _apply_limit
Limits == {None} \cup {Some(n) : n \in {0 - 12, 0 - 1, 0, 1, 7, 10}}
\* the limit argument of the runs of the whole pipeline: unset, as the
\* endpoints of main.py leave it, falsy, positive and negative
RunLimits == {None} \cup {Some(n) : n \in {0 - 1, 0, 7}}

(***************************************************************************)
(* State.                                                                  *)
(***************************************************************************)
VARIABLES
  \* one run of process_question
  pc,            \* where the run is: "describe", "generate", "connect",
                 \* "execute" (connection held, statement not handed over),
                 \* "await" (statement handed to exec_driver_sql),
                 \* "fetch" (result returned, nothing read from it),
                 \* "release" (at the exit of the with block),
                 \* "summarize", "done"
  return_table,  \* the argument return_table
  limit,         \* the argument limit: None or Some(int)
  completion,    \* the outcome of LLM.predict at line 124, None before it
  sql,           \* the local sql of process_question
  connected,     \* the outcome of DB._engine.connect(), None before it
  store,         \* the outcome of conn.exec_driver_sql(sql), None before it
  fetched,       \* the outcome of result.keys() and result.fetchall(), None
                 \* when they were not called
  columns,       \* the local columns
  rows,          \* the local rows
  summary,       \* the outcome of LLM.predict at line 165, None if not called
  response,      \* the QueryResponse returned, None before the return
  llm_calls,     \* how many times LLM.predict was called
  conn,          \* whether the run holds a connection of the engine
  executed,      \* the statements handed to conn.exec_driver_sql, in order
  \* one call of _clean_sql
  wrap,          \* the fence around the completion: None or Some(tag)
  inner,         \* the completion without its fence
  text,          \* the argument of _clean_sql
  cleaned,       \* what _clean_sql returned, None before the call
  \* successive calls of _apply_limit
  lim_sql,       \* the argument sql of the first call
  lim_arg,       \* the argument limit of every call
  lim_out,       \* what the calls returned, in order
  \* the process: the module-level names of lines 97-107 and the runs of
  \* process_question that are under way together
  DB,            \* the SQLDatabase of line 97
  LLM,           \* the model client of line 98
  PROMPT,        \* the PromptTemplate of line 99
  DB_CHAIN,      \* the SQLDatabaseChain of lines 101-107
  runs           \* the locals of every run under way, by run

run_vars == <<pc, return_table, limit, completion, sql, connected, store,
              fetched, columns, rows, summary, response, llm_calls, conn,
              executed>>
clean_vars == <<wrap, inner, text, cleaned>>
limit_vars == <<lim_sql, lim_arg, lim_out>>
handle_vars == <<DB, LLM, PROMPT, DB_CHAIN>>
conc_vars == <<handle_vars, runs>>
vars == <<run_vars, clean_vars, limit_vars, conc_vars>>

\* no run of process_question
RunIdle ==
  /\ pc = "idle" /\ return_table = TRUE /\ limit = None
  /\ completion = None /\ sql = <<>> /\ store = None
  /\ connected = None /\ fetched = None
  /\ columns = <<>> /\ rows = <<>> /\ summary = None /\ response = None
  /\ llm_calls = 0 /\ conn = FALSE /\ executed = <<>>
\* no call of _clean_sql
CleanIdle == wrap = None /\ inner = <<>> /\ text = <<>> /\ cleaned = None
\* no call of _apply_limit
LimitIdle == lim_sql = <<>> /\ lim_arg = None /\ lim_out = <<>>

\* lines 18-19
DB_URI == "sqlite:///data/company.db"
PROMPT_PATH == "app/prompts/sql_prompt2.txt"
\* lines 22-27: the template read from PROMPT_PATH, with its four variables
_load_prompt ==
  [input_variables |-> <<"input", "table_info", "dialect", "top_k">>,
   template |-> PROMPT_PATH]
\* lines 30-38: the client of the deployment named by the environment
_make_llm == [azure_deployment |-> "AZURE_DEPLOYMENT_MODEL", temperature |-> 0]
\* SQLDatabase.from_uri(uri): the handle of the data store and its dialect
SQLDatabase_from_uri(uri) == [uri |-> uri, dialect |-> "sqlite"]
\* lines 97-107: the module is imported; the names are bound once
Imported ==
  /\ DB = SQLDatabase_from_uri(DB_URI)
  /\ LLM = _make_llm
  /\ PROMPT = _load_prompt
  /\ DB_CHAIN = [llm |-> LLM, db |-> DB, prompt |-> PROMPT]
\* no runs under way together
ConcIdle == Imported /\ runs = <<>>

(***************************************************************************)
(* process_question, one step per interaction with a collaborator.         *)
(***************************************************************************)
\* the call process_question(question, return_table, limit)
Init ==
  /\ pc = "describe"
  /\ return_table \in BOOLEAN
  /\ limit \in RunLimits
  /\ completion = None /\ sql = <<>> /\ store = None
  /\ connected = None /\ fetched = None
  /\ columns = <<>> /\ rows = <<>> /\ summary = None /\ response = None
  /\ llm_calls = 0 /\ conn = FALSE /\ executed = <<>>
  /\ CleanIdle /\ LimitIdle /\ ConcIdle

\* the except clause of lines 197-203: the run returns the error response
Fail(msg) ==
  /\ response' = Some(ErrorResponse(msg))
  /\ pc' = "done"

\* lines 115-123: DB.get_table_info() describes the schema for the prompt;
\* an exception of the data store ends the run before the model is asked
Describe ==
  /\ pc = "describe"
  /\ \E out \in SchemaOutcomes :
       IF out.raised
         THEN Fail(out.msg)
         ELSE pc' = "generate" /\ UNCHANGED response
  /\ UNCHANGED <<return_table, limit, completion, sql, store, columns, rows,
                 summary, llm_calls, conn, executed>>
  /\ UNCHANGED <<connected, fetched>>
  /\ UNCHANGED <<clean_vars, limit_vars, conc_vars>>

\* lines 124-126 and 175-185 with a second call of the model after a
\* failed one
Generate_retries ==
  /\ pc = "generate"
  /\ \E llm \in GenerationOutcomes :
       LET got == _generate_sql(llm) IN
       /\ completion' = Some(llm)
       /\ llm_calls' = llm_calls + (IF llm.raised THEN 2 ELSE 1)
       /\ IF got.raised
            THEN Fail(got.msg) /\ UNCHANGED sql
          ELSE IF IsSentinel(got.value)
            THEN /\ response' = Some(RefusalResponse)
                 /\ pc' = "done"
                 /\ UNCHANGED sql
          ELSE /\ sql' = _apply_limit(got.value, limit)
               /\ pc' = "connect"
               /\ UNCHANGED response
  /\ UNCHANGED <<return_table, limit, store, columns, rows, summary, conn,
                 executed>>
  /\ UNCHANGED <<connected, fetched>>
  /\ UNCHANGED <<clean_vars, limit_vars, conc_vars>>

\* lines 124-126 and 175-185: the model is asked for a statement, which is
\* cleaned and gated; the sentinel is answered with the refusal, a statement
\* gets its LIMIT
Generate ==
  /\ pc = "generate"
  /\ \E llm \in GenerationOutcomes :
       LET got == _generate_sql(llm) IN
       /\ completion' = Some(llm)
       /\ llm_calls' = llm_calls + 1
       /\ IF got.raised
            THEN Fail(got.msg) /\ UNCHANGED sql
          ELSE IF IsSentinel(got.value)
            THEN /\ response' = Some(RefusalResponse)
                 /\ pc' = "done"
                 /\ UNCHANGED sql
          ELSE /\ sql' = _apply_limit(got.value, limit)
               /\ pc' = "connect"
               /\ UNCHANGED response
  /\ UNCHANGED <<return_table, limit, store, columns, rows, summary, conn,
                 executed>>
  /\ UNCHANGED <<connected, fetched>>
  /\ UNCHANGED <<clean_vars, limit_vars, conc_vars>>

\* lines 133-137: _execute_sql refuses an empty statement, else asks the
\* engine for a connection, which the engine may fail to give
Connect ==
  /\ pc = "connect"
  /\ IF sql = <<>>
       THEN Fail(EMPTY_SQL_ERROR) /\ UNCHANGED <<conn, connected>>
       ELSE \E out \in ConnectOutcomes :
              /\ connected' = Some(out)
              /\ IF out.raised
                   THEN Fail(out.msg) /\ UNCHANGED conn
                   ELSE conn' = TRUE /\ pc' = "execute" /\ UNCHANGED response
  /\ UNCHANGED <<return_table, limit, completion, sql, store, fetched,
                 columns, rows, summary, llm_calls, executed>>
  /\ UNCHANGED <<clean_vars, limit_vars, conc_vars>>

\* line 138, the call: the statement is handed to conn.exec_driver_sql
Execute ==
  /\ pc = "execute"
  /\ executed' = Append(executed, sql)
  /\ pc' = "await"
  /\ UNCHANGED <<return_table, limit, completion, sql, connected, store,
                 fetched, columns, rows, summary, response, llm_calls, conn>>
  /\ UNCHANGED <<clean_vars, limit_vars, conc_vars>>

\* line 138, the return: the data store gives a result or raises; an
\* exception leaves the with block
Result ==
  /\ pc = "await"
  /\ \E out \in StoreOutcomes :
       /\ store' = Some(out)
       /\ pc' = IF out.raised THEN "release" ELSE "fetch"
  /\ UNCHANGED <<return_table, limit, completion, sql, connected, fetched,
                 columns, rows, summary, response, llm_calls, conn, executed>>
  /\ UNCHANGED <<clean_vars, limit_vars, conc_vars>>

\* lines 139-143: the columns and the rows are read from a result that
\* returns rows, which the data store may fail to give; a result without
\* rows gives the empty table
Fetch ==
  /\ pc = "fetch"
  /\ LET result == store[1].value IN
     IF result.returns_rows
       THEN \E out \in FetchOutcomes(result) :
              /\ fetched' = Some(out)
              /\ IF out.raised
                   THEN UNCHANGED <<columns, rows>>
                   ELSE columns' = result.keys /\ rows' = out.value
       ELSE columns' = <<>> /\ rows' = <<>> /\ UNCHANGED fetched
  /\ pc' = "release"
  /\ UNCHANGED <<return_table, limit, completion, sql, connected, store,
                 summary, response, llm_calls, conn, executed>>
  /\ UNCHANGED <<clean_vars, limit_vars, conc_vars>>

\* the exception the with block is left with, None when it is left by its end
Pending(store_, fetched_) ==
  IF store_[1].raised THEN Some(store_[1].msg)
  ELSE IF fetched_ # None /\ fetched_[1].raised THEN Some(fetched_[1].msg)
  ELSE None

\* the exit of a block that is not a with block: the connection is given
\* back at its end only, an exception leaves it open
Release_leaks ==
  /\ pc = "release"
  /\ conn' = (Pending(store, fetched) # None)
  /\ IF Pending(store, fetched) # None
       THEN Fail(Pending(store, fetched)[1])
       ELSE pc' = "summarize" /\ UNCHANGED response
  /\ UNCHANGED <<return_table, limit, completion, sql, connected, store,
                 fetched, columns, rows, summary, llm_calls, executed>>
  /\ UNCHANGED <<clean_vars, limit_vars, conc_vars>>

\* the exit of the with block of line 137: the connection is given back at
\* its end and on an exception alike; the exception then reaches the except
\* clause of process_question, else _execute_sql returns the table
Release ==
  /\ pc = "release"
  /\ conn' = FALSE
  /\ IF Pending(store, fetched) # None
       THEN Fail(Pending(store, fetched)[1])
       ELSE pc' = "summarize" /\ UNCHANGED response
  /\ UNCHANGED <<return_table, limit, completion, sql, connected, store,
                 fetched, columns, rows, summary, llm_calls, executed>>
  /\ UNCHANGED <<clean_vars, limit_vars, conc_vars>>

\* lines 188-195 with return_table and a table that is not empty: the model
\* is asked for the narrative
Summarize ==
  /\ pc = "summarize"
  /\ return_table /\ NeedsModel(columns, rows)
  /\ \E llm \in SummaryOutcomes :
       /\ summary' = Some(llm)
       /\ llm_calls' = llm_calls + 1
       /\ response' = Some(SuccessResponse(sql,
                             _summarize_table(columns, rows, llm),
                             columns, rows, TRUE))
  /\ pc' = "done"
  /\ UNCHANGED <<return_table, limit, completion, sql, store, columns, rows,
                 conn, executed>>
  /\ UNCHANGED <<connected, fetched>>
  /\ UNCHANGED <<clean_vars, limit_vars, conc_vars>>

\* lines 188-195 otherwise: the answer is made without the model
Answer ==
  /\ pc = "summarize"
  /\ ~(return_table /\ NeedsModel(columns, rows))
  /\ response' = Some(SuccessResponse(sql,
                        IF return_table
                          THEN _summarize_table(columns, rows, None)
                          ELSE _format_rows_for_answer(rows),
                        columns, rows, return_table))
  /\ pc' = "done"
  /\ UNCHANGED <<return_table, limit, completion, sql, store, columns, rows,
                 summary, llm_calls, conn, executed>>
  /\ UNCHANGED <<connected, fetched>>
  /\ UNCHANGED <<clean_vars, limit_vars, conc_vars>>

Next ==
  \/ Describe \/ Generate \/ Connect \/ Execute \/ Result \/ Fetch \/ Release
  \/ Summarize \/ Answer

Spec == Init /\ [][Next]_vars

(***************************************************************************)
(* _clean_sql on its own.                                                  *)
(***************************************************************************)
InitClean ==
  /\ RunIdle /\ LimitIdle /\ ConcIdle
  /\ wrap \in Wraps
  /\ inner \in Texts(MaxPieces)
  /\ text = Wrapped(wrap, inner)
  /\ cleaned = None

CleanSql ==
  /\ cleaned = None
  /\ cleaned' = Some(_clean_sql(text))
  /\ UNCHANGED <<wrap, inner, text>>
  /\ UNCHANGED <<run_vars, limit_vars, conc_vars>>

NextClean == CleanSql

SpecClean == InitClean /\ [][NextClean]_vars

(***************************************************************************)
(* _apply_limit on its own, applied to its own result.                     *)
(***************************************************************************)
InitLimit ==
  /\ RunIdle /\ CleanIdle /\ ConcIdle
  /\ lim_sql \in Texts(MaxPieces)
  /\ lim_arg \in Limits
  /\ lim_out = <<>>

ApplyLimit ==
  /\ Len(lim_out) < MaxApply
  /\ lim_out' = Append(lim_out,
                  _apply_limit(IF lim_out = <<>> THEN lim_sql
                               ELSE lim_out[Len(lim_out)], lim_arg))
  /\ UNCHANGED <<lim_sql, lim_arg>>
  /\ UNCHANGED <<run_vars, clean_vars, conc_vars>>

NextLimit == ApplyLimit

SpecLimit == InitLimit /\ [][NextLimit]_vars

(***************************************************************************)
(* Two runs of process_question under way together, as the request layer   *)
(* starts them on its worker threads.  Every run has its own locals; the   *)
(* module-level names are the only state the runs have in common.          *)
(***************************************************************************)
RunIds == {1, 2}

\* the collaborators' outcomes for the runs under way together
ConcQuestions == {"Revenue in 2023?"}
ConcLimits == {None, Some(7)}
ConcCompletions ==
  {Raise("Request timed out."), Return(<<"S","E","L","E","C","T"," ","1">>), Return(<<"D","R","O","P"," ","t">>)}
ConcStoreOutcomes ==
  {Raise("no such table: t"), Return(NoRows), Return(Table(1, 0)),
   Return(Table(1, 1))}
ConcSummaries == {Raise("Request timed out."), Return(<<"F","l","a","t">>)}

\* the locals of a run at the call process_question(q, rt, lim)
NewRun(q, rt, lim) ==
  [pc |-> "describe", question |-> q, return_table |-> rt, limit |-> lim,
   schema |-> None, prompt |-> None, completion |-> None, sql |-> <<>>,
   connected |-> None, store |-> None, fetched |-> None,
   columns |-> <<>>, rows |-> <<>>, summary |-> None,
   response |-> None, llm_calls |-> 0, conn |-> FALSE, executed |-> <<>>]

\* the except clause of lines 197-203
Failed(r, msg) ==
  [r EXCEPT !.response = Some(ErrorResponse(msg)), !.pc = "done"]

\* lines 115-123: the schema is described by db and the prompt is rendered
\* from the template prompt
DescribeStep(r, db, prompt, out) ==
  LET r1 == [r EXCEPT !.schema = Some(out)] IN
  IF out.raised THEN Failed(r1, out.msg)
  ELSE [r1 EXCEPT !.prompt = Some([template |-> prompt,
                                   input |-> r.question,
                                   table_info |-> out.value,
                                   dialect |-> db.dialect,
                                   top_k |-> "5"]),
                  !.pc = "generate"]

\* lines 124-126 and 175-185
GenerateStep(r, llm) ==
  LET got == _generate_sql(llm)
      r1 == [r EXCEPT !.completion = Some(llm), !.llm_calls = @ + 1]
  IN  IF got.raised THEN Failed(r1, got.msg)
      ELSE IF IsSentinel(got.value)
        THEN [r1 EXCEPT !.response = Some(RefusalResponse), !.pc = "done"]
      ELSE [r1 EXCEPT !.sql = _apply_limit(got.value, r.limit),
                      !.pc = "connect"]

\* lines 133-137
ConnectStep(r, out) ==
  IF r.sql = <<>> THEN Failed(r, EMPTY_SQL_ERROR)
  ELSE LET r1 == [r EXCEPT !.connected = Some(out)] IN
       IF out.raised THEN Failed(r1, out.msg)
       ELSE [r1 EXCEPT !.conn = TRUE, !.pc = "execute"]

\* line 138, the call
ExecuteStep(r) ==
  [r EXCEPT !.executed = Append(@, r.sql), !.pc = "await"]

\* line 138, the return
ResultStep(r, out) ==
  [r EXCEPT !.store = Some(out),
            !.pc = IF out.raised THEN "release" ELSE "fetch"]

\* lines 139-143; out is read only for a result that returns rows
FetchStep(r, out) ==
  LET result == r.store[1].value IN
  IF ~result.returns_rows
    THEN [r EXCEPT !.columns = <<>>, !.rows = <<>>, !.pc = "release"]
  ELSE IF out.raised
    THEN [r EXCEPT !.fetched = Some(out), !.pc = "release"]
  ELSE [r EXCEPT !.fetched = Some(out), !.columns = result.keys,
                 !.rows = out.value, !.pc = "release"]

\* the exit of the with block of line 137
ReleaseStep(r) ==
  LET r1 == [r EXCEPT !.conn = FALSE] IN
  IF Pending(r.store, r.fetched) # None
    THEN Failed(r1, Pending(r.store, r.fetched)[1])
    ELSE [r1 EXCEPT !.pc = "summarize"]

\* line 188 calls the model: return_table and a table that is not empty
Asks(r) == r.return_table /\ NeedsModel(r.columns, r.rows)

\* lines 188-195 with the call of the model
SummarizeStep(r, llm) ==
  [r EXCEPT !.summary = Some(llm),
            !.llm_calls = @ + 1,
            !.response = Some(SuccessResponse(r.sql,
                                _summarize_table(r.columns, r.rows, llm),
                                r.columns, r.rows, TRUE)),
            !.pc = "done"]

\* lines 188-195 without it
AnswerStep(r) ==
  [r EXCEPT !.response = Some(SuccessResponse(r.sql,
                                IF r.return_table
                                  THEN _summarize_table(r.columns, r.rows,
                                                        None)
                                  ELSE _format_rows_for_answer(r.rows),
                                r.columns, r.rows, r.return_table)),
            !.pc = "done"]

\* the requests: every run is called with its own arguments
InitConc ==
  /\ RunIdle /\ CleanIdle /\ LimitIdle
  /\ Imported
  /\ runs \in [RunIds -> {NewRun(q, rt, lim) : q \in ConcQuestions,
                                               rt \in BOOLEAN,
                                               lim \in ConcLimits}]

\* lines 115-123 with the rendered prompt kept in the module-level PROMPT
DescribeOf_rebinds(i) ==
  /\ runs[i].pc = "describe"
  /\ \E out \in SchemaOutcomes :
       LET r == DescribeStep(runs[i], DB, PROMPT, out) IN
       /\ runs' = [runs EXCEPT ![i] = r]
       /\ PROMPT' = IF out.raised THEN PROMPT ELSE r.prompt[1]
  /\ UNCHANGED <<DB, LLM, DB_CHAIN>>
  /\ UNCHANGED <<run_vars, clean_vars, limit_vars>>

DescribeOf(i) ==
  /\ runs[i].pc = "describe"
  /\ \E out \in SchemaOutcomes :
       runs' = [runs EXCEPT ![i] = DescribeStep(@, DB, PROMPT, out)]
  /\ UNCHANGED handle_vars
  /\ UNCHANGED <<run_vars, clean_vars, limit_vars>>

GenerateOf(i) ==
  /\ runs[i].pc = "generate"
  /\ \E llm \in ConcCompletions :
       runs' = [runs EXCEPT ![i] = GenerateStep(@, llm)]
  /\ UNCHANGED handle_vars
  /\ UNCHANGED <<run_vars, clean_vars, limit_vars>>

ConnectOf(i) ==
  /\ runs[i].pc = "connect"
  /\ \E out \in ConnectOutcomes :
       runs' = [runs EXCEPT ![i] = ConnectStep(@, out)]
  /\ UNCHANGED handle_vars
  /\ UNCHANGED <<run_vars, clean_vars, limit_vars>>

ExecuteOf(i) ==
  /\ runs[i].pc = "execute"
  /\ runs' = [runs EXCEPT ![i] = ExecuteStep(@)]
  /\ UNCHANGED handle_vars
  /\ UNCHANGED <<run_vars, clean_vars, limit_vars>>

ResultOf(i) ==
  /\ runs[i].pc = "await"
  /\ \E out \in ConcStoreOutcomes :
       runs' = [runs EXCEPT ![i] = ResultStep(@, out)]
  /\ UNCHANGED handle_vars
  /\ UNCHANGED <<run_vars, clean_vars, limit_vars>>

FetchOf(i) ==
  /\ runs[i].pc = "fetch"
  /\ \E out \in FetchOutcomes(runs[i].store[1].value) :
       runs' = [runs EXCEPT ![i] = FetchStep(@, out)]
  /\ UNCHANGED handle_vars
  /\ UNCHANGED <<run_vars, clean_vars, limit_vars>>

ReleaseOf(i) ==
  /\ runs[i].pc = "release"
  /\ runs' = [runs EXCEPT ![i] = ReleaseStep(@)]
  /\ UNCHANGED handle_vars
  /\ UNCHANGED <<run_vars, clean_vars, limit_vars>>

SummarizeOf(i) ==
  /\ runs[i].pc = "summarize"
  /\ Asks(runs[i])
  /\ \E llm \in ConcSummaries :
       runs' = [runs EXCEPT ![i] = SummarizeStep(@, llm)]
  /\ UNCHANGED handle_vars
  /\ UNCHANGED <<run_vars, clean_vars, limit_vars>>

AnswerOf(i) ==
  /\ runs[i].pc = "summarize"
  /\ ~Asks(runs[i])
  /\ runs' = [runs EXCEPT ![i] = AnswerStep(@)]
  /\ UNCHANGED handle_vars
  /\ UNCHANGED <<run_vars, clean_vars, limit_vars>>

NextConc ==
  \E i \in RunIds :
    \/ DescribeOf(i)
    \/ GenerateOf(i)
    \/ ConnectOf(i)
    \/ ExecuteOf(i)
    \/ ResultOf(i)
    \/ FetchOf(i)
    \/ ReleaseOf(i)
    \/ SummarizeOf(i)
    \/ AnswerOf(i)

SpecConc == InitConc /\ [][NextConc]_vars

\* the run of process_question(q, rt, lim) with nothing else under way, the
\* collaborators giving the outcomes sc, gen, cn, st, ft and sm (None where
\* the run does not come to ask)
RunAlone(q, rt, lim, sc, gen, cn, st, ft, sm) ==
  LET r0 == NewRun(q, rt, lim)
      r1 == DescribeStep(r0, SQLDatabase_from_uri(DB_URI), _load_prompt,
                         sc[1])
      r2 == IF r1.pc = "generate" THEN GenerateStep(r1, gen[1]) ELSE r1
      r3 == IF r2.pc # "connect" THEN r2
            ELSE IF r2.sql = <<>> THEN ConnectStep(r2, None)
            ELSE ConnectStep(r2, cn[1])
      r4 == IF r3.pc = "execute" THEN ExecuteStep(r3) ELSE r3
      r5 == IF r4.pc = "await" THEN ResultStep(r4, st[1]) ELSE r4
      r6 == IF r5.pc # "fetch" THEN r5
            ELSE IF ft = None THEN FetchStep(r5, None)
            ELSE FetchStep(r5, ft[1])
      r7 == IF r6.pc = "release" THEN ReleaseStep(r6) ELSE r6
  IN  IF r7.pc # "summarize" THEN r7
      ELSE IF Asks(r7) THEN SummarizeStep(r7, sm[1])
      ELSE AnswerStep(r7)

(***************************************************************************)
(* The claims.                                                             *)
(***************************************************************************)
\* the run has returned
Done == pc = "done" /\ response # None
\* the model returned a completion at line 124
Completed == completion # None /\ ~completion[1].raised
\* the statement ran and the data store returned
Ran ==
  /\ store # None /\ ~store[1].raised
  /\ ~(fetched # None /\ fetched[1].raised)

\* s holds "UNSUPPORTED" in some letter case
HasSentinel(s) ==
  \E i \in 1..Len(s) :
    /\ i + 10 <= Len(s)
    /\ \A k \in 1..11 : s[i + k - 1] \in {SENTINEL[k], LowerChar(SENTINEL[k])}

\* s matches ^\s*select\b in any letter case
BeginsWithSelect(s) ==
  \E k \in 0..Len(s) :
    /\ \A i \in 1..k : s[i] \in Space
    /\ k + 6 <= Len(s)
    /\ s[k + 1] \in {"s", "S"} /\ s[k + 2] \in {"e", "E"}
    /\ s[k + 3] \in {"l", "L"} /\ s[k + 4] \in {"e", "E"}
    /\ s[k + 5] \in {"c", "C"} /\ s[k + 6] \in {"t", "T"}
    /\ k + 6 = Len(s) \/ s[k + 7] \notin Word

\* C1: whenever the completion holds "UNSUPPORTED" in any letter case, the
\* sanitizer returns the sentinel and process_question returns the refusal
\* response (sql null, the refusal answer, error null, columns and rows
\* empty) without executing any SQL.
C1_SentinelIsRefused ==
  Done /\ Completed /\ HasSentinel(completion[1].value) =>
    /\ _clean_sql(completion[1].value) = SENTINEL
    /\ response[1] = [sql |-> None, answer |-> REFUSAL_ANSWER, error |-> None,
                      columns |-> Some(<<>>), rows |-> Some(<<>>)]
    /\ executed = <<>>

\* C2: in every run the executor is handed only statements that match
\* ^\s*select\b in any letter case, with or without the LIMIT the limit
\* enforcer adds; an empty or non-SELECT statement never reaches it.
C2_OnlySelectExecuted ==
  /\ pc \in {"connect", "execute", "await", "fetch", "release"} =>
       BeginsWithSelect(sql)
  /\ conn => BeginsWithSelect(sql)
  /\ \A i \in DOMAIN executed :
       executed[i] # <<>> /\ BeginsWithSelect(executed[i])

\* C2 witness: a statement the limit enforcer rewrote was executed
C2_Witness ==
  /\ executed # <<>>
  /\ Completed
  /\ executed[1] # _clean_sql(completion[1].value)

\* the response of a failed run with the exception's string
FailureOf(msg) ==
  [sql |-> None, answer |-> FAILURE_ANSWER, error |-> Some(msg),
   columns |-> None, rows |-> None]

\* C3: when the model call fails, the cleaned text is empty or is not a
\* SELECT, or the data store fails, process_question returns (it does not
\* raise) the response with sql null, the generic answer, the exception's
\* string as error, and no table.
C3_FailuresCollapse ==
  /\ pc = "done" => response # None
  /\ Done /\ completion # None /\ completion[1].raised =>
       response[1] = FailureOf(completion[1].msg)
  /\ Done /\ Completed
          /\ ~BeginsWithSelect(_clean_sql(completion[1].value)) =>
       response[1] = FailureOf("Only SELECT statements are allowed.")
  /\ Done /\ store # None /\ store[1].raised =>
       response[1] = FailureOf(store[1].msg)
  /\ Done /\ connected # None /\ connected[1].raised =>
       response[1] = FailureOf(connected[1].msg)
  /\ Done /\ fetched # None /\ fetched[1].raised =>
       response[1] = FailureOf(fetched[1].msg)

\* C3 witness: the data store rejected the statement and the run returned
C3_Witness ==
  /\ Done
  /\ store # None /\ store[1].raised
  /\ response[1].error = Some("no such table: t")

\* C4: applying the limit enforcer to its own result with the same limit
\* changes nothing, for every statement and every limit.
C4_LimitIdempotent ==
  Len(lim_out) >= 2 => lim_out[2] = lim_out[1]

\* the characters that separate statements: whitespace and ";"
Separator == Space \cup {";"}

\* b is the first segment of u between ";" that is not blank, trimmed
IsFirstSegment(u, b) ==
  \E i \in 1..Len(u) : \E j \in i..Len(u) :
    /\ \A k \in 1..(i - 1) : u[k] \in Separator
    /\ u[i] \notin Separator /\ u[j] \notin Separator
    /\ \A k \in i..j : u[k] # ";"
    /\ \E m \in j..Len(u) :
         /\ \A k \in (j + 1)..m : u[k] \in Space
         /\ m = Len(u) \/ u[m + 1] = ";"
    /\ b = SubSeq(u, i, j)

\* C5: for a completion without "UNSUPPORTED", the sanitizer returns the
\* empty string when the text (after the fence and the label are taken off)
\* has no segment that is not blank, and otherwise exactly the first such
\* segment, trimmed, with one ";" behind it: the result is not empty, its
\* only ";" is its last character, and nothing of a later statement is in
\* it.
C5_FirstStatementOnly ==
  cleaned # None /\ ~HasSentinel(text) =>
    LET u == Unwrapped(text)
        r == cleaned[1]
    IN  IF \A k \in 1..Len(u) : u[k] \in Separator
          THEN r = <<>>
          ELSE /\ Len(r) >= 2
               /\ r[Len(r)] = ";"
               /\ \A k \in 1..(Len(r) - 1) : r[k] # ";"
               /\ IsFirstSegment(u, SubSeq(r, 1, Len(r) - 1))

\* C5 witness: a completion of two statements was cleaned to the first
C5_Witness ==
  /\ cleaned = Some(<<"S","E","L","E","C","T"," ","1",";">>)
  /\ text = <<"S","E","L","E","C","T"," ","1",";"," ","D","R","O","P"," ","t">>

\* C6: for a completion that is a fenced code block, with or without a
\* language tag, the sanitizer returns what it returns for the content
\* alone, and no backquote of the fence is left in it.
C6_FenceStripped ==
  cleaned # None /\ wrap # None =>
    /\ cleaned[1] = _clean_sql(inner)
    /\ \A k \in 1..Len(cleaned[1]) : cleaned[1][k] # Backquote

\* C6 witness: a block tagged sql around SELECT 1; was cleaned to SELECT 1;
C6_Witness ==
  /\ wrap = Some(<<"s","q","l">>)
  /\ inner = <<"S","E","L","E","C","T"," ","1",";">>
  /\ cleaned = Some(<<"S","E","L","E","C","T"," ","1",";">>)

\* C7: when the statement ran, the table is not empty, return_table is true
\* and the summarization call raises, the run still returns a success: the
\* executed sql, error null, the columns and rows, and the fixed answer
\* "Here is the data as requested.".
C7_SummaryFailureRecovered ==
  Done /\ summary # None /\ summary[1].raised =>
    /\ Ran /\ return_table
    /\ Len(executed) = 1
    /\ response[1] = [sql |-> Some(executed[1]),
                      answer |-> FALLBACK_ANSWER,
                      error |-> None,
                      columns |-> Some(store[1].value.keys),
                      rows |-> Some(store[1].value.fetchall)]

\* C7 witness: the summarization call raised and the run returned
C7_Witness ==
  /\ Done
  /\ summary # None /\ summary[1].raised
  /\ response[1].rows # Some(<<>>)

\* the table the executor returns for what the data store did
TableOf(out) ==
  IF out.returns_rows
    THEN [columns |-> out.keys, rows |-> out.fetchall]
    ELSE [columns |-> <<>>, rows |-> <<>>]

\* C8: on a successful run error is null and sql is the statement that was
\* executed; with return_table the answer is the narrative text and columns
\* and rows are the executor's table, without it the answer is the terse
\* text and columns and rows are null.
C8_SuccessShape ==
  Done /\ Ran =>
    LET t == TableOf(store[1].value)
        r == response[1]
    IN  /\ r.error = None
        /\ Len(executed) = 1 /\ r.sql = Some(executed[1])
        /\ return_table =>
             /\ r.answer = _summarize_table(t.columns, t.rows,
                             IF summary = None THEN None ELSE summary[1])
             /\ r.columns = Some(t.columns)
             /\ r.rows = Some(t.rows)
        /\ ~return_table =>
             /\ r.answer = _format_rows_for_answer(t.rows)
             /\ r.columns = None
             /\ r.rows = None

\* C8 witness: a run without return_table succeeded on a table with rows
C8_Witness ==
  /\ Done /\ Ran
  /\ ~return_table
  /\ store[1].value.fetchall # <<>>
  /\ response[1].rows = None

\* sql holds a LIMIT <digits> clause, in any letter case, at position i
LimitClauseAt(s, i) ==
  /\ LitAtI(s, i, <<"l","i","m","i","t">>)
  /\ i = 1 \/ s[i - 1] \notin Word
  /\ \E d \in (i + 6)..Len(s) : \E e \in d..Len(s) :
       /\ \A k \in (i + 5)..(d - 1) : s[k] \in Space
       /\ \A k \in d..e : s[k] \in Digit
       /\ e = Len(s) \/ s[e + 1] \notin Word
LimitClauses(s) == {i \in 1..Len(s) : LimitClauseAt(s, i)}
\* the places of the keyword LIMIT in s, in any letter case
LimitKeywords(s) == {i \in 1..Len(s) : LitAtI(s, i, <<"l","i","m","i","t">>)}

\* the length of s without its trailing whitespace
TrimmedLen(s) ==
  CHOOSE m \in 0..Len(s) :
    /\ \A k \in (m + 1)..Len(s) : s[k] \in Space
    /\ m = 0 \/ s[m] \notin Space
\* s without its trailing whitespace and then without one trailing ";"
WithoutOneSemicolon(s) ==
  LET m == TrimmedLen(s)
  IN  IF m > 0 /\ s[m] = ";" THEN SubSeq(s, 1, m - 1) ELSE SubSeq(s, 1, m)
\* s without its trailing whitespace and then without every trailing ";"
WithoutSemicolons(s) ==
  LET m == TrimmedLen(s)
      k == CHOOSE n \in 0..m :
             /\ \A q \in (n + 1)..m : s[q] = ";"
             /\ n = 0 \/ s[n] # ";"
  IN  SubSeq(s, 1, k)
\* " LIMIT {limit};"
LimitClause(n) == <<" ","L","I","M","I","T"," ">> \o IntStr(n) \o <<";">>

\* C9, as claimed: sql comes back unchanged when limit is falsy or sql holds
\* a LIMIT <digits> clause; otherwise one trailing ";" is taken off and
\* " LIMIT {limit};" is put behind, so that the result holds exactly one
\* LIMIT clause.
C9_StripsOneSemicolon ==
  lim_out # <<>> =>
    LET out == lim_out[1] IN
    IF Falsy(lim_arg) \/ LimitClauses(lim_sql) # {}
      THEN out = lim_sql
      ELSE /\ out = WithoutOneSemicolon(lim_sql) \o LimitClause(lim_arg[1])
           /\ Cardinality(LimitClauses(out)) = 1

\* C9, amended: sql comes back unchanged when limit is falsy or sql holds a
\* LIMIT <digits> clause; otherwise the trailing whitespace and then every
\* trailing ";" are taken off and " LIMIT {limit};" is put behind: the
\* result holds one LIMIT keyword more than sql, and exactly one
\* LIMIT <digits> clause when limit is positive.
C9_StripsEverySemicolon ==
  lim_out # <<>> =>
    LET out == lim_out[1] IN
    IF Falsy(lim_arg) \/ LimitClauses(lim_sql) # {}
      THEN out = lim_sql
      ELSE /\ out = WithoutSemicolons(lim_sql) \o LimitClause(lim_arg[1])
           /\ Cardinality(LimitKeywords(out))
                = Cardinality(LimitKeywords(lim_sql)) + 1
           /\ lim_arg[1] > 0 => Cardinality(LimitClauses(out)) = 1

\* C9 witness: a statement with whitespace behind its ";" got its LIMIT
C9_Witness ==
  /\ lim_sql = <<"S","E","L","E","C","T"," ","1",";"," ">>
  /\ lim_arg = Some(10)
  /\ lim_out # <<>>
  /\ lim_out[1] = <<"S","E","L","E","C","T"," ","1"," ","L","I","M","I","T"," ","1","0",";">>

\* the terse answer the claim gives for the rows rs
TerseText(rs) ==
  LET n == Len(rs) IN
  IF n = 0 THEN <<"N","o"," ","r","o","w","s"," ","m","a","t","c","h","e","d"," ","y","o","u","r"," ","q","u","e","r","y",".">>
  ELSE IF n = 1 /\ Len(rs[1]) = 1
    THEN <<"T","h","e"," ","r","e","s","u","l","t"," ","i","s"," ">> \o IntStr(rs[1][1]) \o <<".">>
  ELSE <<"F","o","u","n","d"," ">> \o IntStr(n) \o <<" ","r","o","w","(","s",")","."," ","S","h","o","w","i","n","g"," ","t","o","p"," ">>
         \o IntStr(IF n <= 5 THEN n ELSE 5) \o <<".">>

\* C10: terse mode calls no model and its answer is decided by the rows:
\* "No rows matched your query." for none, "The result is {value}." for one
\* row of one column, "Found {n} row(s). Showing top {min(n,5)}." otherwise.
C10_TerseAnswer ==
  Done /\ Ran /\ ~return_table =>
    /\ summary = None /\ llm_calls = 1
    /\ response[1].answer = TerseText(TableOf(store[1].value).rows)

\* C10 witness: six rows were answered with "Found 6 row(s). Showing top 5."
C10_Witness ==
  /\ Done /\ Ran /\ ~return_table
  /\ Len(store[1].value.fetchall) = 6
  /\ response[1].answer = <<"F","o","u","n","d"," ","6"," ","r","o","w","(","s",")","."," ","S","h","o","w","i","n","g"," ","t","o","p"," ","5",".">>

\* C11: with return_table, whenever the executor's columns or rows are
\* empty the answer is exactly "There was no data to summarize." and the
\* summarization model is not called; the summarization call happens only
\* with return_table, after the statement ran, and with columns and rows
\* both non-empty.
C11_NoDataNoModel ==
  /\ Done /\ Ran /\ return_table
          /\ (TableOf(store[1].value).columns = <<>>
                \/ TableOf(store[1].value).rows = <<>>) =>
       /\ response[1].answer = <<"T","h","e","r","e"," ","w","a","s"," ","n","o"," ","d","a","t","a"," ","t","o"," ","s","u","m","m","a","r","i","z","e",".">>
       /\ summary = None
       /\ llm_calls = 1
  /\ summary # None =>
       /\ return_table
       /\ Ran
       /\ TableOf(store[1].value).columns # <<>>
       /\ TableOf(store[1].value).rows # <<>>
       /\ llm_calls = 2

\* C11 witness: a statement that returned columns and no rows was answered
\* with return_table and without the model
C11_Witness ==
  /\ Done /\ Ran /\ return_table
  /\ store[1].value.returns_rows
  /\ store[1].value.keys # <<>>
  /\ store[1].value.fetchall = <<>>
  /\ response[1].answer = <<"T","h","e","r","e"," ","w","a","s"," ","n","o"," ","d","a","t","a"," ","t","o"," ","s","u","m","m","a","r","i","z","e",".">>
  /\ response[1].columns = Some(store[1].value.keys)
  /\ summary = None

\* C12: a connection of the data store is held only inside the executor,
\* between engine.connect() and the end of the with block, and for one
\* statement; on every exit path of process_question (rows returned, a
\* statement without rows, an error raised by the store, or no execution at
\* all) it has been given back before the response is returned: no run ends
\* holding a connection.
C12_ConnectionScoped ==
  /\ conn <=> pc \in {"execute", "await", "fetch", "release"}
  /\ conn => response = None /\ connected = Some(Return("connection"))
  /\ pc \in {"summarize", "done"} => ~conn
  /\ response # None => ~conn
  /\ executed # <<>> /\ pc # "done" /\ pc # "summarize" => conn
  /\ store # None => Len(executed) = 1
  /\ Len(executed) <= 1

\* C12 witness: the store raised inside the with block and the run returned
\* its failure response without the connection
C12_Witness ==
  /\ Done
  /\ Len(executed) = 1
  /\ store # None /\ store[1].raised
  /\ response[1].error = Some(store[1].msg)
  /\ ~conn

\* 1 when the call was made, 0 when it was not
Calls(outcome) == IF outcome = None THEN 0 ELSE 1
\* the calls of the model are the generation call and the summarization
\* call, each made at most once; the generation call comes before the gate
\* and the execution and is not repeated after a failure; the summarization
\* call comes only after the statement ran
CallOrder ==
  /\ llm_calls = Calls(completion) + Calls(summary)
  /\ llm_calls <= 2
  /\ pc \in {"describe", "generate"} =>
       completion = None /\ sql = <<>> /\ executed = <<>>
  /\ pc \in {"connect", "execute", "await", "fetch", "release",
              "summarize"} => Completed
  /\ sql # <<>> \/ executed # <<>> \/ store # None => Completed
  /\ completion # None /\ completion[1].raised =>
       /\ pc = "done" /\ llm_calls = 1
       /\ executed = <<>> /\ store = None /\ summary = None
  /\ summary # None => Ran /\ pc = "done" /\ llm_calls = 2

\* C13, as claimed: in every run the generation call of the model is made
\* exactly once, before sanitization, the gate and the execution, and is not
\* retried after a failure; a run makes at most two calls, the second being
\* the one summarization call, made only after the statement ran.
C13_GenerationExactlyOnce ==
  /\ CallOrder
  /\ pc = "done" => Calls(completion) = 1

\* C13, amended: the generation call of the model is made at most once:
\* exactly once when DB.get_table_info() returned, and not at all when it
\* raised, in which case the run returns the failure response with that
\* exception's string; the call comes before sanitization, the gate and the
\* execution and is not retried after a failure; a run makes at most two
\* calls, the second being the one summarization call, made only after the
\* statement ran.
C13_GenerationAtMostOnce ==
  /\ CallOrder
  /\ pc = "done" /\ completion = None =>
       /\ llm_calls = 0
       /\ \E msg \in SchemaErrors : response = Some(FailureOf(msg))
  /\ pc = "done"
       /\ (\A msg \in SchemaErrors : response # Some(FailureOf(msg))) =>
       Calls(completion) = 1

\* C13 witness: the generation call failed and the run returned after that
\* one call
C13_Witness ==
  /\ Done
  /\ completion # None /\ completion[1].raised
  /\ response[1].error = Some(completion[1].msg)
  /\ llm_calls = 1

\* C14: for every interleaving of two runs of process_question, no run
\* writes the process-wide handles (DB, LLM, PROMPT, DB_CHAIN), and the
\* response of every run, with everything else the run computed, is the one
\* the run gives alone for the same question, return_table, limit and
\* outcomes of its collaborators.
C14_RunsIndependent ==
  /\ Imported
  /\ \A i \in RunIds :
       runs[i].pc = "done" =>
         /\ runs[i].response # None
         /\ runs[i] = RunAlone(runs[i].question, runs[i].return_table,
                               runs[i].limit, runs[i].schema,
                               runs[i].completion, runs[i].connected,
                               runs[i].store, runs[i].fetched,
                               runs[i].summary)

\* C14 witness: two runs called with different limits have both returned,
\* the first with the table of its statement and the second with the error
\* the store raised on its own
C14_Witness ==
  /\ runs[1].pc = "done" /\ runs[2].pc = "done"
  /\ runs[1].store # None /\ ~runs[1].store[1].raised
  /\ runs[2].store # None /\ runs[2].store[1].raised
  /\ runs[1].response[1].error = None
  /\ runs[2].response[1].error = Some("no such table: t")
  /\ runs[1].limit # runs[2].limit
=============================================================================
